---- MODULE Spec2Model ----
(***************************************************************************)
(* Model of the webhook function in src/main.py: one invocation of         *)
(* api_interface handles one event against the device registry.  Strings   *)
(* that the code slices or concatenates (device ids, name labels, the      *)
(* coefficient) are sequences of one-character strings; dictionaries are   *)
(* functions whose DOMAIN is the set of keys present; Python's None is the *)
(* empty sequence and a present value a one-element sequence.  Numbers are *)
(* exact rationals [n, d]; the model's inputs are chosen so that the       *)
(* code's floating-point arithmetic is exact on them.                      *)
(***************************************************************************)
EXTENDS Integers, Sequences, FiniteSets, TLC

\* ------------------------------------------------------------------ bounds

\* Number of emulated/stray device slots the registry may hold initially.
MaxTwins == 2

\* --------------------------------------------------------------- constants

EMULATION_LABEL == "inertia-model"
TWIN_NAME_APPENDIX == <<" ", "t", "w", "i", "n">>
ORIGINAL_DEVICE_LABEL == "original_device_id"
\* the literal 'emu' of find_twin and clean_twins
EMU_PREFIX == <<"e", "m", "u">>

\* ----------------------------------------------------------------- strings

\* str.startswith
StartsWith(s, prefix) ==
    /\ Len(prefix) <= Len(s)
    /\ SubSeq(s, 1, Len(prefix)) = prefix

\* s.split('/')[-1] and s.split('/')[1] on a path kept as its segments
LastSegment(path) == path[Len(path)]
SecondSegment(path) == path[2]

DigitChars == <<"0", "1", "2", "3", "4", "5", "6", "7", "8", "9">>
IsDigit(c) == \E i \in 1..10 : DigitChars[i] = c
DigitVal(c) == (CHOOSE i \in 1..10 : DigitChars[i] = c) - 1

\* ---------------------------------------------------------------- numbers

RECURSIVE Gcd(_, _)
Gcd(a, b) == IF b = 0 THEN a ELSE Gcd(b, a % b)
Abs(x) == IF x < 0 THEN -x ELSE x

Rat(n, d) ==
    LET s == IF d < 0 THEN -1 ELSE 1
        g == Gcd(Abs(n), Abs(d))
    IN  [n |-> (s * n) \div g, d |-> (s * d) \div g]
RInt(i) == [n |-> i, d |-> 1]
RAdd(x, y) == Rat(x.n * y.d + y.n * x.d, x.d * y.d)
RSub(x, y) == Rat(x.n * y.d - y.n * x.d, x.d * y.d)
RMul(x, y) == Rat(x.n * y.n, x.d * y.d)
RNeg(x) == [n |-> -x.n, d |-> x.d]

RECURSIVE Pow10(_)
Pow10(k) == IF k = 0 THEN 1 ELSE 10 * Pow10(k - 1)

RECURSIVE DigitsValue(_)
DigitsValue(s) ==
    IF s = <<>> THEN 0
    ELSE 10 * DigitsValue(SubSeq(s, 1, Len(s) - 1)) + DigitVal(s[Len(s)])

AllDigits(s) == \A i \in 1..Len(s) : IsDigit(s[i])

\* float() with a fallback of 0 in place of the ValueError
ParseFloat_lenient(s) == [ok |-> TRUE, val |-> [n |-> 0, d |-> 1]]

\* float(coefficient) on the decimal literals of the model's alphabet:
\* [sign] digits [. digits] or [sign] . digits; anything else raises
\* ValueError (ok = FALSE).
ParseFloat(s) ==
    LET signed == s # <<>> /\ s[1] \in {"-", "+"}
        body == IF signed THEN Tail(s) ELSE s
        dots == {i \in 1..Len(body) : body[i] = "."}
        ip == IF dots = {} THEN body
              ELSE SubSeq(body, 1, (CHOOSE i \in dots : TRUE) - 1)
        fp == IF dots = {} THEN <<>>
              ELSE SubSeq(body, (CHOOSE i \in dots : TRUE) + 1, Len(body))
        ok == /\ Cardinality(dots) <= 1
              /\ AllDigits(ip) /\ AllDigits(fp)
              /\ Len(ip) + Len(fp) > 0
        mag == Rat(DigitsValue(ip) * Pow10(Len(fp)) + DigitsValue(fp),
                   Pow10(Len(fp)))
    IN  IF ~ok THEN [ok |-> FALSE, val |-> RInt(0)]
        ELSE [ok |-> TRUE,
              val |-> IF signed /\ s[1] = "-" THEN RNeg(mag) ELSE mag]

\* convert_event_data_timestamp: a timestamp is whole seconds plus a
\* nanosecond fraction; the unixtime is nanoseconds // 10**9.
ConvertEventDataTimestamp(ts) == ts.sec

\* ------------------------------------------------------------ input sets

Procs == {1, 2}
NoneVal == <<>>
Some(x) == <<x>>

ProjectId == "p1"
\* id of the source device of every event, and of some other sensor
SourceId == <<"a">>
OtherId == <<"b">>
SEN_PREFIX == <<"s", "e", "n">>

NameR == <<"R">>
NameRTwin == <<"R", " ", "t", "w", "i", "n">>
NameQ == <<"Q">>

Timestamp(s, f) == [sec |-> s, ns |-> f]
Reading(v, t) == [value |-> v, updateTime |-> t]

\* the resource name "projects/<project>/devices/<id>", kept as its segments
ResourceName(pid, id) == <<"projects", pid, "devices", id>>

\* a labels dictionary from optional name and optional original_device_id
LabelDict(nameOpt, bindOpt) ==
    [k \in (IF nameOpt = NoneVal THEN {} ELSE {"name"})
           \cup (IF bindOpt = NoneVal THEN {} ELSE {ORIGINAL_DEVICE_LABEL})
       |-> IF k = "name" THEN nameOpt[1] ELSE bindOpt[1]]

\* a device resource; rep is NoKey (no 'reported' key) or Some(t) with t the
\* reported temperature: None or Some(reading).  A 'reported' object always
\* carries the temperature key, as line 87 of src/main.py expects.
NoKey == <<>>
Device(id, labels, rep) ==
    IF rep = NoKey
    THEN [name |-> ResourceName(ProjectId, id), labels |-> labels]
    ELSE [name |-> ResourceName(ProjectId, id), labels |-> labels,
          reported |-> [temperature |-> rep[1]]]

\* what a stray device of the registry may look like
TwinVariants ==
    { [pre |-> EMU_PREFIX, nm |-> Some(NameRTwin), bind |-> Some(SourceId),
       rep |-> Some(Some(Reading(RInt(0), Timestamp(60, 0))))],
      [pre |-> EMU_PREFIX, nm |-> Some(NameRTwin), bind |-> Some(SourceId),
       rep |-> NoKey],
      [pre |-> EMU_PREFIX, nm |-> Some(NameRTwin), bind |-> Some(SourceId),
       rep |-> Some(NoneVal)],
      [pre |-> EMU_PREFIX, nm |-> Some(NameQ), bind |-> Some(SourceId),
       rep |-> Some(Some(Reading(RInt(20), Timestamp(60, 0))))],
      [pre |-> EMU_PREFIX, nm |-> NoneVal, bind |-> Some(SourceId),
       rep |-> NoKey],
      [pre |-> EMU_PREFIX, nm |-> Some(NameRTwin), bind |-> Some(OtherId),
       rep |-> Some(Some(Reading(RInt(0), Timestamp(60, 0))))],
      [pre |-> EMU_PREFIX, nm |-> Some(NameRTwin), bind |-> NoneVal,
       rep |-> NoKey],
      [pre |-> SEN_PREFIX, nm |-> Some(NameRTwin), bind |-> Some(SourceId),
       rep |-> NoKey] }

SlotDevice(k, v) ==
    Device(v.pre \o <<DigitChars[k + 1]>>, LabelDict(v.nm, v.bind), v.rep)

OriginalRosters ==
    { <<>>,
      <<Device(SourceId, LabelDict(NoneVal, NoneVal), Some(NoneVal))>>,
      <<Device(SourceId, LabelDict(Some(NameR), NoneVal), Some(NoneVal))>> }

StrayRosters ==
    UNION { { [k \in 1..n |-> SlotDevice(k, vs[k])] : vs \in [1..n -> TwinVariants] }
            : n \in 0..MaxTwins }

Rosters == { o \o t : o \in OriginalRosters, t \in StrayRosters }

Coefficients == { <<"1">>, <<"0", ".", "5">>, <<"f", "a", "s", "t">> }

EmptyDict == [k \in {} |-> <<>>]
LabelSets ==
    {EmptyDict} \cup { [k \in {EMULATION_LABEL} |-> c] : c \in Coefficients }

EventValues == { RInt(10), Rat(43, 2) }
EventTimes == { Timestamp(0, 0), Timestamp(60, 500000000), Timestamp(3660, 0) }

TemperatureEvents ==
    { [eventType |-> "temperature",
       targetName |-> ResourceName(ProjectId, SourceId),
       data |-> [temperature |-> Reading(v, t)]]
      : v \in EventValues, t \in EventTimes }

DeltaDicts == { EmptyDict, [k \in {EMULATION_LABEL} |-> <<"1">>] }
DeltaLists == { <<>>, <<EMULATION_LABEL>> }

LabelsChangedEvents ==
    { [eventType |-> "labelsChanged",
       targetName |-> ResourceName(ProjectId, SourceId),
       data |-> [added |-> a, modified |-> m, removed |-> r]]
      : a \in DeltaDicts, m \in DeltaDicts, r \in DeltaLists }

OtherEvents ==
    { [eventType |-> "touch",
       targetName |-> ResourceName(ProjectId, SourceId),
       data |-> EmptyDict] }

Events == TemperatureEvents \cup LabelsChangedEvents \cup OtherEvents

\* status codes a registry call may answer with besides 200
FailStatuses == {404, 500}

\* ------------------------------------------------------- locator functions

DeviceId(device) == LastSegment(device.name)

get_device_name(device) ==
    IF "name" \in DOMAIN device.labels
    THEN device.labels["name"]
    ELSE LastSegment(device.name)

\* find_twin taking any emulated device that carries a binding
find_twin_match_any_binding(device, device_id) ==
    /\ StartsWith(LastSegment(device.name), EMU_PREFIX)
    /\ ORIGINAL_DEVICE_LABEL \in DOMAIN device.labels

\* the match test of find_twin's loop body
find_twin_match(device, device_id) ==
    /\ StartsWith(LastSegment(device.name), EMU_PREFIX)
    /\ ORIGINAL_DEVICE_LABEL \in DOMAIN device.labels
    /\ device.labels[ORIGINAL_DEVICE_LABEL] = device_id

\* raised: the print of device['labels']['name'] raised KeyError
find_twin(device_id, device_list) ==
    LET hits == { i \in 1..Len(device_list) :
                    find_twin_match(device_list[i], device_id) }
    IN  IF hits = {} THEN [raised |-> FALSE, ret |-> NoneVal]
        ELSE LET first == CHOOSE i \in hits : \A j \in hits : i <= j
                 device == device_list[first]
             IN  IF "name" \notin DOMAIN device.labels
                 THEN [raised |-> TRUE, ret |-> NoneVal]
                 ELSE [raised |-> FALSE, ret |-> Some(device)]

find_original_device(device_id, device_list) ==
    LET hits == { i \in 1..Len(device_list) :
                    device_id = LastSegment(device_list[i].name) }
    IN  IF hits = {} THEN NoneVal
        ELSE Some(device_list[CHOOSE i \in hits : \A j \in hits : i <= j])

\* clean_twins taking any emulated device that carries a binding
clean_twins_match_any_binding(device, device_id) ==
    /\ StartsWith(LastSegment(device.name), EMU_PREFIX)
    /\ ORIGINAL_DEVICE_LABEL \in DOMAIN device.labels

\* the match test of clean_twins' loop body
clean_twins_match(device, device_id) ==
    /\ StartsWith(LastSegment(device.name), EMU_PREFIX)
    /\ ORIGINAL_DEVICE_LABEL \in DOMAIN device.labels
    /\ device.labels[ORIGINAL_DEVICE_LABEL] = device_id

\* clean_twins starting over from the head of the list after every delete
clean_twins_next_restart(device_id, device_list, from) ==
    LET hits == { i \in 1..Len(device_list) :
                    clean_twins_match(device_list[i], device_id) }
    IN  IF hits = {} THEN 0 ELSE CHOOSE i \in hits : \A j \in hits : i <= j

\* index of the next device clean_twins deletes at or after position from; 0
\* when the loop runs out
clean_twins_next(device_id, device_list, from) ==
    LET hits == { i \in from..Len(device_list) :
                    clean_twins_match(device_list[i], device_id) }
    IN  IF hits = {} THEN 0 ELSE CHOOSE i \in hits : \A j \in hits : i <= j

\* spawn_twin with the binding label forgotten
spawn_twin_labels_unbound(device_id, original_name) ==
    [k \in {"name"} |-> original_name \o TWIN_NAME_APPENDIX]

\* spawn_twin with the appendix forgotten
spawn_twin_labels_plain(device_id, original_name) ==
    [k \in {"name", ORIGINAL_DEVICE_LABEL}
       |-> IF k = "name" THEN original_name ELSE device_id]

\* the labels spawn_twin posts
spawn_twin_labels(device_id, original_name) ==
    [k \in {"name", ORIGINAL_DEVICE_LABEL}
       |-> IF k = "name" THEN original_name \o TWIN_NAME_APPENDIX ELSE device_id]

\* the name test with its operands swapped
needs_refresh_swapped(twin, original_device) ==
    ~StartsWith(get_device_name(original_device), get_device_name(twin))

\* the test guarding refresh_twin_name in synchronize_emulated_twin
needs_refresh(twin, original_device) ==
    ~StartsWith(get_device_name(twin), get_device_name(original_device))

\* the value refresh_twin_name patches the name label to
\* the twin renamed to the original's own name
refresh_twin_name_value_plain(new_prefix) == new_prefix

refresh_twin_name_value(new_prefix) == new_prefix \o TWIN_NAME_APPENDIX

\* has_previous: the else branch of update_emulated_twin's test
has_previous(twin) ==
    ~("reported" \notin DOMAIN twin \/ twin.reported.temperature = NoneVal)

\* the model started from zero instead of from the event's reading
new_model_value_from_zero(event, twin, k) ==
    LET v == event.data.temperature.value
    IN  IF ~has_previous(twin) THEN RInt(0)
        ELSE LET prev == twin.reported.temperature[1]
                 e == ConvertEventDataTimestamp(event.data.temperature.updateTime)
                        - ConvertEventDataTimestamp(prev.updateTime)
             IN  RAdd(prev.value,
                      RMul(RMul(RNeg(k), RSub(prev.value, v)), Rat(e, 60)))

\* the elapsed time left in seconds
new_model_value_in_seconds(event, twin, k) ==
    LET v == event.data.temperature.value
    IN  IF ~has_previous(twin) THEN v
        ELSE LET prev == twin.reported.temperature[1]
                 e == ConvertEventDataTimestamp(event.data.temperature.updateTime)
                        - ConvertEventDataTimestamp(prev.updateTime)
             IN  RAdd(prev.value,
                      RMul(RMul(RNeg(k), RSub(prev.value, v)), RInt(e)))

\* the new model value of update_emulated_twin
new_model_value(event, twin, k) ==
    LET event_temperature == event.data.temperature.value
    IN  IF ~has_previous(twin) THEN event_temperature
        ELSE LET previous_model_temperature == twin.reported.temperature[1].value
                 previous_model_ux ==
                     ConvertEventDataTimestamp(twin.reported.temperature[1].updateTime)
                 event_ux ==
                     ConvertEventDataTimestamp(event.data.temperature.updateTime)
                 normaliser == Rat(event_ux - previous_model_ux, 60)
                 dt == RMul(RNeg(k), RSub(previous_model_temperature, event_temperature))
             IN  RAdd(previous_model_temperature, RMul(dt, normaliser))

\* ---------------------------------------------------------------- registry

RegistryHas(reg, id) == \E i \in 1..Len(reg) : DeviceId(reg[i]) = id

RegistryDelete(reg, id) == SelectSeq(reg, LAMBDA d : DeviceId(d) # id)

RegistryPatchName(reg, id, value) ==
    [i \in 1..Len(reg) |->
        IF DeviceId(reg[i]) = id
        THEN [reg[i] EXCEPT !.labels =
                 [k \in DOMAIN reg[i].labels \cup {"name"} |->
                     IF k = "name" THEN value ELSE reg[i].labels[k]]]
        ELSE reg[i]]

\* the emulator stamps the published reading; the event's time stands for it
RegistryPublish(reg, id, value, time) ==
    [i \in 1..Len(reg) |->
        IF DeviceId(reg[i]) = id
        THEN [name |-> reg[i].name, labels |-> reg[i].labels,
              reported |-> [temperature |-> Some(Reading(value, time))]]
        ELSE reg[i]]

\* statuses a call on device id may answer with
StatusesFor(reg, id) ==
    IF RegistryHas(reg, id) THEN {200} \cup FailStatuses ELSE FailStatuses

\* -------------------------------------------------------------------- state

VARIABLES
    registry,   \* the project's devices as the registry lists them
    nextId,     \* number the emulator gives the next device it creates
    inv         \* per invocation: position, locals and the calls it issued

vars == <<registry, nextId, inv>>

NoResult == [msg |-> <<>>, code |-> 0]
Result(msg, code) == [msg |-> msg, code |-> code]

Call(op, dev, arg, status) == [op |-> op, dev |-> dev, arg |-> arg, status |-> status]

IdleInvocation ==
    [pc |-> "idle", event |-> NoneVal, labels |-> EmptyDict,
     project_id |-> "", device_id |-> <<>>, device_list |-> <<>>,
     found |-> NoneVal, twin |-> NoneVal, original_device |-> NoneVal,
     new_spawn |-> FALSE,
     clean_from |-> 0, clean_then |-> "", sync |-> NoResult, sync_twin |-> NoneVal,
     result |-> NoResult, raised |-> "", calls |-> <<>>]

Init ==
    /\ registry \in Rosters
    /\ nextId = MaxTwins + 1
    /\ inv = [p \in Procs |-> IdleInvocation]

\* the invocation raised an uncaught exception
Raise(r, exc) == [r EXCEPT !.pc = "crashed", !.raised = exc]

\* api_interface returns status
Return(r, status) == [r EXCEPT !.pc = "done", !.result = status]

\* lines 441-447 of api_interface, once synchronize_emulated_twin has
\* returned (status, twin)
after_synchronize(r, status, twin) ==
    LET r1 == [r EXCEPT !.sync = status, !.sync_twin = twin]
    IN  IF status.code # 200 \/ twin = NoneVal THEN Return(r1, status)
        ELSE IF r.event[1].eventType = "labelsChanged"
             THEN Return(r1, Result(<<"OK">>, 200))
             ELSE [r1 EXCEPT !.pc = "update"]

\* a deny-list of event types in place of the allow-list
skipped_event_type_denied(event) ==
    event.eventType \in {"networkStatus", "batteryStatus"}

\* the test of api_interface's event filter
skipped_event_type(event) ==
    event.eventType # "temperature" /\ event.eventType # "labelsChanged"

\* api_interface up to the device list request: the event filter
\* for an event and a label set out of the given ones
api_interface_on(p, events, labelsets) ==
    /\ inv[p].pc = "idle"
    /\ \E event \in events, labels \in labelsets :
         LET r == [inv[p] EXCEPT !.event = Some(event), !.labels = labels]
         IN  inv' = [inv EXCEPT ![p] =
                 IF skipped_event_type(event)
                 THEN Return(r, Result(<<"skipped event type ", event.eventType>>, 200))
                 ELSE [r EXCEPT !.pc = "list"]]
    /\ UNCHANGED <<registry, nextId>>

api_interface(p) == api_interface_on(p, Events, LabelSets)

\* the device list request of api_interface
request_device_list(p) ==
    /\ inv[p].pc = "list"
    /\ LET r == inv[p]
           project_id == SecondSegment(r.event[1].targetName)
       IN  inv' = [inv EXCEPT ![p] =
               [r EXCEPT !.pc = "sync",
                         !.project_id = project_id,
                         !.device_list = registry,
                         !.device_id = LastSegment(r.event[1].targetName),
                         !.calls = Append(@, Call("listDevices", <<>>, project_id, 200))]]
    /\ UNCHANGED <<registry, nextId>>

\* the removed delta looked at before the modified one
label_delta_removed_first(event) ==
    IF event.eventType # "labelsChanged" THEN "none"
    ELSE IF EMULATION_LABEL \in DOMAIN event.data.added THEN "added"
    ELSE IF \E i \in 1..Len(event.data.removed) : event.data.removed[i] = EMULATION_LABEL
    THEN "removed"
    ELSE IF EMULATION_LABEL \in DOMAIN event.data.modified THEN "modified"
    ELSE "none"

\* which delta of a labelsChanged event synchronize_emulated_twin acts on:
\* the if / elif / elif chain over added, modified, removed
label_delta(event) ==
    IF event.eventType # "labelsChanged" THEN "none"
    ELSE IF EMULATION_LABEL \in DOMAIN event.data.added THEN "added"
    ELSE IF EMULATION_LABEL \in DOMAIN event.data.modified THEN "modified"
    ELSE IF \E i \in 1..Len(event.data.removed) : event.data.removed[i] = EMULATION_LABEL
    THEN "removed"
    ELSE "none"

\* the presence-check branch of synchronize_emulated_twin up to its first
\* registry call
presence_check(r, new_spawn) ==
    LET found == find_twin(r.device_id, r.device_list)
        original_device == find_original_device(r.device_id, r.device_list)
        r1 == [r EXCEPT !.new_spawn = new_spawn, !.found = Some(found),
                        !.twin = found.ret, !.original_device = original_device]
    IN  IF found.raised
        THEN Raise([r EXCEPT !.new_spawn = new_spawn, !.found = Some(found)], "KeyError")
        ELSE IF original_device = NoneVal
             THEN after_synchronize(r1, Result(<<"could not find original device">>, 400),
                                    NoneVal)
        ELSE IF found.ret = NoneVal
             THEN [r1 EXCEPT !.pc = "clean", !.clean_from = 1, !.clean_then = "spawn"]
        ELSE [r1 EXCEPT !.pc = "refresh"]

\* synchronize_emulated_twin up to its first registry call
synchronize_emulated_twin(p) ==
    /\ inv[p].pc = "sync"
    /\ LET r == inv[p]
           event == r.event[1]
           added == label_delta(event) = "added"
           modified == label_delta(event) = "modified"
           removed == label_delta(event) = "removed"
       IN  inv' = [inv EXCEPT ![p] =
               IF modified
               THEN after_synchronize(r, Result(<<"-- Modified emulation label.">>, 200),
                                      NoneVal)
               ELSE IF removed
               THEN [r EXCEPT !.pc = "clean", !.clean_from = 1, !.clean_then = "removed"]
               ELSE IF EMULATION_LABEL \in DOMAIN r.labels \/ added
               THEN presence_check(r, added)
               ELSE [r EXCEPT !.pc = "clean", !.clean_from = 1, !.clean_then = "nolabel"]]
    /\ UNCHANGED <<registry, nextId>>

\* one iteration of clean_twins that sends a delete request
clean_twins_delete(p) ==
    /\ inv[p].pc = "clean"
    /\ LET r == inv[p]
           at == clean_twins_next(r.device_id, r.device_list, r.clean_from)
       IN  /\ at # 0
           /\ LET device == r.device_list[at]
                  delete_id == LastSegment(device.name)
              IN  \E status \in StatusesFor(registry, delete_id) :
                    LET r1 == [r EXCEPT !.clean_from = at + 1,
                                        !.calls = Append(@, Call("deleteDevice", delete_id,
                                                                 <<>>, status))]
                    IN  /\ registry' = IF status = 200
                                       THEN RegistryDelete(registry, delete_id)
                                       ELSE registry
                        /\ inv' = [inv EXCEPT ![p] =
                               IF status = 200 /\ "name" \notin DOMAIN device.labels
                               THEN Raise(r1, "KeyError")
                               ELSE r1]
    /\ UNCHANGED nextId

\* clean_twins' loop is over: back in synchronize_emulated_twin
clean_twins_return(p) ==
    /\ inv[p].pc = "clean"
    /\ LET r == inv[p]
       IN  /\ clean_twins_next(r.device_id, r.device_list, r.clean_from) = 0
           /\ inv' = [inv EXCEPT ![p] =
                  IF r.clean_then = "removed"
                  THEN after_synchronize(r, Result(<<"-- Removed emulation label.">>, 200),
                                         NoneVal)
                  ELSE IF r.clean_then = "nolabel"
                  THEN after_synchronize(r, Result(<<"no emulation label">>, 200), NoneVal)
                  ELSE [r EXCEPT !.pc = "spawn"]]
    /\ UNCHANGED <<registry, nextId>>

\* only server errors taken for a bad spawn
spawn_status_ok_lenient(spawn_status) == spawn_status < 500

\* the check of spawn_twin's status in synchronize_emulated_twin
spawn_status_ok(spawn_status) == ~(spawn_status # 200)

\* spawn_twin and the check of its status.  The emulator answers 200 with the
\* device it created (an id with the emulated prefix, the posted labels, no
\* reading yet) or another status with an error body.
spawn_twin(p) ==
    /\ inv[p].pc = "spawn"
    /\ LET r == inv[p]
           labels == spawn_twin_labels(r.device_id, get_device_name(r.original_device[1]))
           payload == [type |-> "temperature", labels |-> labels]
       IN  \E status \in {200} \cup FailStatuses, rep \in {NoKey, Some(NoneVal)} :
             LET created == Device(EMU_PREFIX \o <<DigitChars[nextId + 1]>>, labels, rep)
                 r1 == [r EXCEPT !.calls = Append(@, Call("createDevice", <<>>, payload,
                                                          status))]
             IN  /\ status # 200 => rep = NoKey
                 /\ registry' = IF status = 200 THEN Append(registry, created)
                                 ELSE registry
                 /\ nextId' = IF status = 200 THEN nextId + 1 ELSE nextId
                 /\ inv' = [inv EXCEPT ![p] =
                        IF spawn_status_ok(status)
                        THEN [r1 EXCEPT !.pc = "refresh", !.twin = Some(created)]
                        ELSE after_synchronize(r1,
                                 Result(<<"ERROR: could not spawn twin">>, 400), NoneVal)]

\* the name refresh at the end of the presence-check branch, and the return
\* of synchronize_emulated_twin
refresh_twin_name(p) ==
    /\ inv[p].pc = "refresh"
    /\ LET r == inv[p]
           twin == r.twin[1]
           twin_id == LastSegment(twin.name)
           value == refresh_twin_name_value(get_device_name(r.original_device[1]))
       IN  IF needs_refresh(twin, r.original_device[1])
           THEN \E status \in StatusesFor(registry, twin_id) :
                  LET r1 == [r EXCEPT !.calls = Append(@,
                                Call("patchLabel", twin_id,
                                     [key |-> "name", value |-> value], status))]
                  IN  /\ registry' = IF status = 200
                                     THEN RegistryPatchName(registry, twin_id, value)
                                     ELSE registry
                      /\ inv' = [inv EXCEPT ![p] =
                             IF status = 200 /\ "name" \notin DOMAIN twin.labels
                             THEN Raise(r1, "KeyError")
                             ELSE after_synchronize(r1, Result(<<"OK">>, 200), r.twin)]
           ELSE /\ registry' = registry
                /\ inv' = [inv EXCEPT ![p] =
                       after_synchronize(r, Result(<<"OK">>, 200), r.twin)]
    /\ UNCHANGED nextId

\* a bad emit reported as a client error, like a bad spawn
emit_status_as_400(status_code) ==
    IF status_code # 200
    THEN Result(<<"ERROR: bad emit response">>, 400)
    ELSE Result(<<"OK">>, 200)

\* what update_emulated_twin returns after the publish request, which
\* api_interface passes on when its code is not 200 and answers with
\* ('OK', 200) otherwise
emit_status(status_code) ==
    IF status_code # 200
    THEN Result(<<"ERROR: bad emit response">>, status_code)
    ELSE Result(<<"OK">>, 200)

\* update_emulated_twin and the end of api_interface
update_emulated_twin(p) ==
    /\ inv[p].pc = "update"
    /\ LET r == inv[p]
           event == r.event[1]
           twin == r.sync_twin[1]
       IN  IF EMULATION_LABEL \notin DOMAIN r.labels
           THEN /\ inv' = [inv EXCEPT ![p] = Raise(r, "KeyError")]
                /\ registry' = registry
           ELSE LET parsed == ParseFloat(r.labels[EMULATION_LABEL])
                IN  IF ~parsed.ok
                    THEN \* ('-- non-float coefficient, skipping...', 200) has code 200
                         /\ inv' = [inv EXCEPT ![p] = Return(r, Result(<<"OK">>, 200))]
                         /\ registry' = registry
                    ELSE LET new_value == new_model_value(event, twin, parsed.val)
                             twin_id == LastSegment(twin.name)
                         IN  \E status \in StatusesFor(registry, twin_id) :
                               LET r1 == [r EXCEPT !.calls = Append(@,
                                             Call("publishReading", twin_id, new_value,
                                                  status))]
                               IN  /\ registry' =
                                        IF status = 200
                                        THEN RegistryPublish(registry, twin_id, new_value,
                                                 event.data.temperature.updateTime)
                                        ELSE registry
                                   /\ inv' = [inv EXCEPT ![p] =
                                          Return(r1, emit_status(status))]
    /\ UNCHANGED nextId

Step(p) ==
    \/ api_interface(p)
    \/ request_device_list(p)
    \/ synchronize_emulated_twin(p)
    \/ clean_twins_delete(p)
    \/ clean_twins_return(p)
    \/ spawn_twin(p)
    \/ refresh_twin_name(p)
    \/ update_emulated_twin(p)

\* one invocation, run alone
Next == Step(1)

Spec == Init /\ [][Next]_vars

\* ---------------------------------------------- two concurrent invocations
\* Two requests for the same source device are served at once, interleaved
\* at registry-call granularity.  The registry starts with the original
\* device and no twin bound to it.

RaceRosters ==
    { <<Device(SourceId, LabelDict(Some(NameR), NoneVal), Some(NoneVal))>>,
      <<Device(SourceId, LabelDict(Some(NameR), NoneVal), Some(NoneVal)),
        Device(EMU_PREFIX \o <<DigitChars[2]>>, LabelDict(Some(NameRTwin), Some(OtherId)),
               NoKey)>> }

RaceEvents ==
    { [eventType |-> "temperature",
       targetName |-> ResourceName(ProjectId, SourceId),
       data |-> [temperature |-> Reading(RInt(10), Timestamp(60, 500000000))]],
      [eventType |-> "labelsChanged",
       targetName |-> ResourceName(ProjectId, SourceId),
       data |-> [added |-> [k \in {EMULATION_LABEL} |-> <<"1">>],
                 modified |-> EmptyDict, removed |-> <<>>]] }

RaceLabelSets == { EmptyDict, [k \in {EMULATION_LABEL} |-> <<"1">>] }

InitRace ==
    /\ registry \in RaceRosters
    /\ nextId = MaxTwins + 1
    /\ inv = [p \in Procs |-> IdleInvocation]

api_interface_race(p) == api_interface_on(p, RaceEvents, RaceLabelSets)

StepRace(p) ==
    \/ api_interface_race(p)
    \/ request_device_list(p)
    \/ synchronize_emulated_twin(p)
    \/ clean_twins_delete(p)
    \/ clean_twins_return(p)
    \/ spawn_twin(p)
    \/ refresh_twin_name(p)
    \/ update_emulated_twin(p)

NextRace == \E p \in Procs : StepRace(p)

SpecRace == InitRace /\ [][NextRace]_vars

\* ------------------------------------------ invocations one after another
\* Requests for two source devices are served one at a time; each lists the
\* registry as the one before left it.  The registry starts without twins.

\* twins the emulator creates in one run of the model
MaxCreated == 3

SeqRosters ==
    { <<Device(SourceId, LabelDict(Some(NameR), NoneVal), Some(NoneVal))>>,
      <<Device(SourceId, LabelDict(Some(NameR), NoneVal), Some(NoneVal)),
        Device(OtherId, LabelDict(NoneVal, NoneVal), Some(NoneVal))>> }

SeqEvents ==
    UNION { { [eventType |-> "temperature",
               targetName |-> ResourceName(ProjectId, id),
               data |-> [temperature |-> Reading(RInt(10), t)]]
              : t \in { Timestamp(0, 0), Timestamp(60, 500000000) } }
            \cup
            { [eventType |-> "labelsChanged",
               targetName |-> ResourceName(ProjectId, id),
               data |-> [added |-> a, modified |-> m, removed |-> r]]
              : a \in DeltaDicts, m \in DeltaDicts, r \in DeltaLists }
            \cup
            { [eventType |-> "touch",
               targetName |-> ResourceName(ProjectId, id),
               data |-> EmptyDict] }
            : id \in {SourceId, OtherId} }

SeqLabelSets == { EmptyDict, [k \in {EMULATION_LABEL} |-> <<"1">>] }

InitSeq ==
    /\ registry \in SeqRosters
    /\ nextId = MaxTwins + 1
    /\ inv = [p \in Procs |-> IdleInvocation]

api_interface_seq(p) == api_interface_on(p, SeqEvents, SeqLabelSets)

\* the request is over, returned or failed: the next one starts afresh
next_request(p) ==
    /\ inv[p].pc \in {"done", "crashed"}
    /\ inv' = [inv EXCEPT ![p] = IdleInvocation]
    /\ UNCHANGED <<registry, nextId>>

\* spawn_twin while the emulator has creations left in this run
spawn_twin_seq(p) ==
    /\ spawn_twin(p)
    /\ nextId' <= MaxTwins + 1 + MaxCreated

StepSeq(p) ==
    \/ api_interface_seq(p)
    \/ request_device_list(p)
    \/ synchronize_emulated_twin(p)
    \/ clean_twins_delete(p)
    \/ clean_twins_return(p)
    \/ spawn_twin_seq(p)
    \/ refresh_twin_name(p)
    \/ update_emulated_twin(p)
    \/ next_request(p)

NextSeq == StepSeq(1)

SpecSeq == InitSeq /\ [][NextSeq]_vars

\* ------------------------------------------------ vocabulary of the claims

Finished(r) == r.pc \in {"done", "crashed"}

CallsOf(r, op) == SelectSeq(r.calls, LAMBDA c : c.op = op)
NoCalls(r, ops) == \A i \in 1..Len(r.calls) : r.calls[i].op \notin ops

IsTwinPrefixed(d) ==
    /\ Len(DeviceId(d)) >= 3
    /\ DeviceId(d)[1] = "e" /\ DeviceId(d)[2] = "m" /\ DeviceId(d)[3] = "u"

IsBoundTwin(d, id) ==
    /\ IsTwinPrefixed(d)
    /\ "original_device_id" \in DOMAIN d.labels
    /\ d.labels["original_device_id"] = id

\* the bound twins of a roster, in roster order
BoundTwins(roster, id) == SelectSeq(roster, LAMBDA d : IsBoundTwin(d, id))

HasOriginal(roster, id) == \E i \in 1..Len(roster) : DeviceId(roster[i]) = id
OriginalOf(roster, id) ==
    roster[CHOOSE i \in 1..Len(roster) :
              /\ DeviceId(roster[i]) = id
              /\ \A j \in 1..(i - 1) : DeviceId(roster[j]) # id]

DisplayName(d) == IF "name" \in DOMAIN d.labels THEN d.labels["name"] ELSE DeviceId(d)

IsPrefixOf(a, b) == Len(a) <= Len(b) /\ \A i \in 1..Len(a) : a[i] = b[i]

\* the roster has been fetched
Listed(r) == r.pc \notin {"idle", "list"}

LabelsChanged(r) == r.event # NoneVal /\ r.event[1].eventType = "labelsChanged"
Temperature(r) == r.event # NoneVal /\ r.event[1].eventType = "temperature"
InAdded(r) == LabelsChanged(r) /\ "inertia-model" \in DOMAIN r.event[1].data.added
InModified(r) == LabelsChanged(r) /\ "inertia-model" \in DOMAIN r.event[1].data.modified
InRemoved(r) ==
    /\ LabelsChanged(r)
    /\ \E i \in 1..Len(r.event[1].data.removed) :
          r.event[1].data.removed[i] = "inertia-model"
LabelPresent(r) == "inertia-model" \in DOMAIN r.labels

\* the event takes the presence-check branch
PresenceBranch(r) ==
    \/ InAdded(r)
    \/ LabelsChanged(r) /\ ~InModified(r) /\ ~InRemoved(r) /\ LabelPresent(r)
    \/ Temperature(r) /\ LabelPresent(r)

\* ------------------------------------------------------------------ claims

\* C1 (as stated): a labelsChanged event that adds the emulation label, on a
\* roster with the original device and no twin bound to it, issues exactly
\* one createDevice with name = <original display name> + " twin" and
\* original_device_id = <original id>, no patchLabel, no publishReading, and
\* returns ("OK", 200).
SpawnCase(r) ==
    /\ InAdded(r) /\ Listed(r)
    /\ HasOriginal(r.device_list, r.device_id)
    /\ BoundTwins(r.device_list, r.device_id) = <<>>

SpawnCalls(r) ==
    LET creates == CallsOf(r, "createDevice")
    IN  /\ Len(creates) = 1
        /\ DOMAIN creates[1].arg.labels = {"name", "original_device_id"}
        /\ creates[1].arg.labels["name"] =
              DisplayName(OriginalOf(r.device_list, r.device_id)) \o <<" ", "t", "w", "i", "n">>
        /\ creates[1].arg.labels["original_device_id"] = r.device_id
        /\ NoCalls(r, {"patchLabel", "publishReading"})

C1_SpawnAsStated ==
    \A p \in Procs :
        LET r == inv[p]
        IN  Finished(r) /\ SpawnCase(r) =>
                /\ r.pc = "done"
                /\ SpawnCalls(r)
                /\ r.result = Result(<<"OK">>, 200)

\* C1 (amended): in the spawn case the invocation issues exactly that one
\* createDevice, no patchLabel and no publishReading; it returns ("OK", 200)
\* when the createDevice call answers 200, and status 400 otherwise.
C1_Spawn ==
    \A p \in Procs :
        LET r == inv[p]
        IN  /\ SpawnCase(r) => NoCalls(r, {"patchLabel", "publishReading"})
            /\ Finished(r) /\ SpawnCase(r) =>
                /\ r.pc = "done"
                /\ SpawnCalls(r)
                /\ IF CallsOf(r, "createDevice")[1].status = 200
                   THEN r.result = Result(<<"OK">>, 200)
                   ELSE r.result.code = 400

\* a spawn that succeeded although the current labels lack the emulation label
C1_Witness ==
    \E p \in Procs :
        /\ inv[p].pc = "done" /\ SpawnCase(inv[p]) /\ ~LabelPresent(inv[p])
        /\ "name" \in DOMAIN OriginalOf(inv[p].device_list, inv[p].device_id).labels
        /\ Len(CallsOf(inv[p], "createDevice")) = 1
        /\ inv[p].result = Result(<<"OK">>, 200)

\* C2: a labelsChanged event that removes the emulation label (and neither
\* adds nor modifies it) issues one deleteDevice per bound twin of the
\* roster, no createDevice, patchLabel or publishReading, and returns
\* ("-- Removed emulation label.", 200).
RemovalCase(r) == InRemoved(r) /\ ~InAdded(r) /\ ~InModified(r) /\ Listed(r)

DeletesAre(r, twins) ==
    LET deletes == CallsOf(r, "deleteDevice")
    IN  /\ Len(deletes) = Len(twins)
        /\ \A i \in 1..Len(twins) : deletes[i].dev = DeviceId(twins[i])

C2_Removal ==
    \A p \in Procs :
        LET r == inv[p]
        IN  Finished(r) /\ RemovalCase(r) =>
                /\ r.pc = "done"
                /\ DeletesAre(r, BoundTwins(r.device_list, r.device_id))
                /\ NoCalls(r, {"createDevice", "patchLabel", "publishReading"})
                /\ r.result = Result(<<"-- Removed emulation label.">>, 200)

\* C3 (as stated): when the roster holds the original device and a twin
\* bound to it whose display name starts with the original's display name,
\* the presence-check branch issues no createDevice, patchLabel or
\* deleteDevice call.
StableCaseAsStated(r) ==
    /\ Listed(r) /\ PresenceBranch(r)
    /\ HasOriginal(r.device_list, r.device_id)
    /\ LET twins == BoundTwins(r.device_list, r.device_id)
       IN  \E i \in 1..Len(twins) :
              IsPrefixOf(DisplayName(OriginalOf(r.device_list, r.device_id)),
                         DisplayName(twins[i]))

C3_IdempotentAsStated ==
    \A p \in Procs :
        StableCaseAsStated(inv[p]) =>
            NoCalls(inv[p], {"createDevice", "patchLabel", "deleteDevice"})

\* C3 (amended): when the roster holds the original device and the first
\* twin bound to it in roster order has a display name that starts with the
\* original's display name, the presence-check branch issues no
\* createDevice, patchLabel or deleteDevice call, for temperature and
\* labelsChanged events alike.
StableCase(r) ==
    /\ Listed(r) /\ PresenceBranch(r)
    /\ HasOriginal(r.device_list, r.device_id)
    /\ LET twins == BoundTwins(r.device_list, r.device_id)
       IN  /\ twins # <<>>
           /\ IsPrefixOf(DisplayName(OriginalOf(r.device_list, r.device_id)),
                         DisplayName(twins[1]))

C3_Idempotent ==
    \A p \in Procs :
        StableCase(inv[p]) =>
            NoCalls(inv[p], {"createDevice", "patchLabel", "deleteDevice"})

\* a labelsChanged invocation that ran the branch to its end on a stable roster
C3_Witness ==
    \E p \in Procs :
        /\ inv[p].pc = "done" /\ StableCase(inv[p]) /\ InAdded(inv[p])
        /\ inv[p].result = Result(<<"OK">>, 200)
        /\ inv[p].sync_twin # NoneVal

\* C4: clean_twins issues exactly one deleteDevice for every device of the
\* roster that is twin-prefixed and bound to the target id, in every
\* combination of deletes succeeding and failing, and none for other devices.
C4_CleanupComplete ==
    \A p \in Procs :
        LET r == inv[p]
        IN  r.clean_then # "" /\ r.pc # "clean" =>
                DeletesAre(r, BoundTwins(r.device_list, r.device_id))

\* C5: find_twin returns the first device of the roster that is
\* twin-prefixed and bound to id, whether or not it carries a name label,
\* and none when there is no such device.
C5_FindTwin ==
    \A p \in Procs :
        LET r == inv[p]
            twins == BoundTwins(r.device_list, r.device_id)
        IN  r.found # NoneVal =>
                /\ ~r.found[1].raised
                /\ r.found[1].ret = IF twins = <<>> THEN NoneVal ELSE Some(twins[1])

\* C6: after an invocation with the emulation label present that returned
\* ("OK", 200) and in which every registry call succeeded, at most one twin
\* is bound to the original id in the registry.
AllCallsSucceeded(r) == \A i \in 1..Len(r.calls) : r.calls[i].status = 200

C6_AtMostOneTwin ==
    \A p \in Procs :
        LET r == inv[p]
        IN  /\ r.pc = "done" /\ r.result = Result(<<"OK">>, 200)
            /\ PresenceBranch(r) /\ LabelPresent(r) /\ AllCallsSucceeded(r)
            =>
                Len(BoundTwins(registry, r.device_id)) <= 1

\* C7: for a temperature event with the emulation label present and a numeric
\* coefficient, when the resolved twin has no previously reported temperature
\* (it never reported, or it was created in this invocation), exactly one
\* publishReading is issued, to that twin, with the event's reading as value.
NumericCoefficients == {<<"1">>, <<"0", ".", "5">>}
CoefficientOf(r) == r.labels["inertia-model"]

NoPrevious(twin) ==
    \/ "reported" \notin DOMAIN twin
    \/ twin.reported.temperature = <<>>

UpdateCase(r) ==
    /\ Temperature(r) /\ LabelPresent(r)
    /\ CoefficientOf(r) \in NumericCoefficients
    /\ r.sync_twin # NoneVal

C7_ModelInit ==
    \A p \in Procs :
        LET r == inv[p]
            publishes == CallsOf(r, "publishReading")
        IN  Finished(r) /\ UpdateCase(r) /\ NoPrevious(r.sync_twin[1]) =>
                /\ r.pc = "done"
                /\ Len(publishes) = 1
                /\ publishes[1].dev = DeviceId(r.sync_twin[1])
                /\ publishes[1].arg = r.event[1].data.temperature.value

\* the twin was created in this invocation and then initialised
C7_Witness ==
    \E p \in Procs :
        /\ inv[p].pc = "done" /\ UpdateCase(inv[p]) /\ NoPrevious(inv[p].sync_twin[1])
        /\ Len(CallsOf(inv[p], "createDevice")) = 1
        /\ Len(CallsOf(inv[p], "publishReading")) = 1
        /\ CallsOf(inv[p], "publishReading")[1].arg = [n |-> 43, d |-> 2]
        /\ inv[p].result = Result(<<"OK">>, 200)

\* C8: when the twin has a previous value p reported at t0, a temperature
\* event with reading v at t1 and coefficient k publishes exactly
\* p + (-k*(p - v)) * ((t1 - t0)/60): as fractions, with e = t1 - t0 in
\* seconds, n/d = (60*pn*kd*vd - kn*(pn*vd - vn*pd)*e) / (60*kd*pd*vd);
\* nothing is clamped and no elapsed time, zero or negative, is rejected.
CoefficientValue(c) == IF c = <<"1">> THEN [n |-> 1, d |-> 1] ELSE [n |-> 1, d |-> 2]

DecayValue(r, x) ==
    LET prev == r.sync_twin[1].reported.temperature[1]
        pn == prev.value.n
        pd == prev.value.d
        vn == r.event[1].data.temperature.value.n
        vd == r.event[1].data.temperature.value.d
        kn == CoefficientValue(CoefficientOf(r)).n
        kd == CoefficientValue(CoefficientOf(r)).d
        e == r.event[1].data.temperature.updateTime.sec - prev.updateTime.sec
    IN  x.n * (60 * kd * pd * vd)
          = x.d * (60 * pn * kd * vd - kn * (pn * vd - vn * pd) * e)

C8_Decay ==
    \A p \in Procs :
        LET r == inv[p]
            publishes == CallsOf(r, "publishReading")
        IN  Finished(r) /\ UpdateCase(r) /\ ~NoPrevious(r.sync_twin[1]) =>
                /\ r.pc = "done"
                /\ Len(publishes) = 1
                /\ publishes[1].dev = DeviceId(r.sync_twin[1])
                /\ publishes[1].arg.d > 0
                /\ DecayValue(r, publishes[1].arg)

\* k = 1, p = 0, v = 10, 60 minutes elapsed: 600 is published
C8_Witness ==
    \E p \in Procs :
        /\ inv[p].pc = "done" /\ UpdateCase(inv[p]) /\ ~NoPrevious(inv[p].sync_twin[1])
        /\ CoefficientOf(inv[p]) = <<"1">>
        /\ inv[p].sync_twin[1].reported.temperature[1].value = [n |-> 0, d |-> 1]
        /\ inv[p].event[1].data.temperature.value = [n |-> 10, d |-> 1]
        /\ inv[p].event[1].data.temperature.updateTime.sec
             - inv[p].sync_twin[1].reported.temperature[1].updateTime.sec = 3600
        /\ CallsOf(inv[p], "publishReading")[1].arg = [n |-> 600, d |-> 1]

\* C9 (as stated): a temperature event whose emulation label value is not a
\* float issues no publishReading and returns status 200.
NonNumericCase(r) ==
    /\ Temperature(r) /\ LabelPresent(r)
    /\ CoefficientOf(r) \notin NumericCoefficients

SilentNoOp(r) ==
    \/ NonNumericCase(r) /\ r.sync_twin # NoneVal
    \/ r.event # NoneVal /\ r.event[1].eventType \notin {"temperature", "labelsChanged"}
    \/ InModified(r) /\ ~InAdded(r) /\ ~InRemoved(r)

C10_Distinguishable ==
    \A p \in Procs :
        LET r == inv[p]
        IN  r.pc = "done" /\ SilentNoOp(r) =>
                /\ r.result.code = 200
                /\ r.result.msg # <<"OK">>

\* C11: when the emulation label is present or a spawn was requested and no
\* device of the roster has the source id, the invocation returns status 400
\* and has issued no deleteDevice, createDevice, patchLabel or publishReading
\* call, even if a twin bound to that id is in the roster.
MissingOriginalCase(r) ==
    /\ Listed(r) /\ PresenceBranch(r)
    /\ ~HasOriginal(r.device_list, r.device_id)

C11_MissingOriginal ==
    \A p \in Procs :
        LET r == inv[p]
        IN  /\ MissingOriginalCase(r) =>
                NoCalls(r, {"deleteDevice", "createDevice", "patchLabel", "publishReading"})
            /\ Finished(r) /\ MissingOriginalCase(r) =>
                /\ r.pc = "done"
                /\ r.result.code = 400

\* C12: if createDevice answers a status other than 200, the invocation
\* returns status 400 and issues no patchLabel and no publishReading call,
\* for temperature and labelsChanged events alike.
FailedCreate(r) ==
    \E i \in 1..Len(r.calls) :
        r.calls[i].op = "createDevice" /\ r.calls[i].status # 200

C12_FailedCreateAborts ==
    \A p \in Procs :
        LET r == inv[p]
        IN  FailedCreate(r) =>
                /\ r.pc = "done"
                /\ r.result.code = 400
                /\ NoCalls(r, {"patchLabel", "publishReading"})
                /\ r.calls[Len(r.calls)].op = "createDevice"

\* a temperature event with a numeric coefficient whose twin creation failed
C12_Witness ==
    \E p \in Procs :
        /\ FailedCreate(inv[p])
        /\ Temperature(inv[p]) /\ LabelPresent(inv[p])
        /\ CoefficientOf(inv[p]) \in NumericCoefficients
        /\ inv[p].result = Result(<<"ERROR: could not spawn twin">>, 400)

\* C13: if publishReading answers a status s other than 200, the invocation
\* returns an error whose status code is s; if it answers 200, the
\* invocation returns ("OK", 200).
C13_PublishMirrored ==
    \A p \in Procs :
        LET r == inv[p]
            publishes == CallsOf(r, "publishReading")
        IN  publishes # <<>> =>
                /\ r.pc = "done"
                /\ IF publishes[1].status = 200
                   THEN r.result = Result(<<"OK">>, 200)
                   ELSE /\ r.result.code = publishes[1].status
                        /\ r.result.msg # <<"OK">>

\* a publish answered with 404 and mirrored
C13_Witness ==
    \E p \in Procs :
        /\ CallsOf(inv[p], "publishReading") # <<>>
        /\ CallsOf(inv[p], "publishReading")[1].status = 404
        /\ inv[p].result.code = 404

\* C14: for an event whose type is neither temperature nor labelsChanged the
\* invocation returns status 200 with a "skipped" message and issues no
\* registry call at all, whatever the labels and the registry hold.
IgnoredEvent(r) ==
    /\ r.event # NoneVal
    /\ r.event[1].eventType \notin {"temperature", "labelsChanged"}

C14_EventFilter ==
    \A p \in Procs :
        LET r == inv[p]
        IN  IgnoredEvent(r) =>
                /\ r.pc = "done"
                /\ r.calls = <<>>
                /\ r.result.code = 200
                /\ r.result.msg = <<"skipped event type ", r.event[1].eventType>>

\* a touch event skipped although the label is present and twins are bound
C14_Witness ==
    \E p \in Procs :
        /\ IgnoredEvent(inv[p]) /\ inv[p].pc = "done" /\ LabelPresent(inv[p])
        /\ Len(BoundTwins(registry, <<"a">>)) = 2

\* C15: two concurrent invocations for the same original device can both
\* read a roster without a twin and both create one.  An invocation in the
\* presence-check branch whose own roster holds the original and no bound
\* twin issues its createDevice whatever the registry holds by then, and
\* when two invocations both created successfully and neither deleted, the
\* registry holds both twins.
CreatesOnSnapshot(r) ==
    /\ Finished(r) /\ PresenceBranch(r)
    /\ HasOriginal(r.device_list, r.device_id)
    /\ BoundTwins(r.device_list, r.device_id) = <<>>

Created(r) ==
    \E i \in 1..Len(r.calls) :
        r.calls[i].op = "createDevice" /\ r.calls[i].status = 200

C15_CreationRace ==
    /\ \A p \in Procs :
          CreatesOnSnapshot(inv[p]) =>
              /\ inv[p].pc = "done"
              /\ Len(CallsOf(inv[p], "createDevice")) = 1
    /\ \A p, q \in Procs :
          (/\ p # q
           /\ Created(inv[p]) /\ Created(inv[q])
           /\ NoCalls(inv[p], {"deleteDevice"}) /\ NoCalls(inv[q], {"deleteDevice"}))
          => Len(BoundTwins(registry, SourceId)) >= 2

\* both invocations have returned, each created a twin, and the registry
\* holds two twins bound to the one original
C15_Witness ==
    /\ \A p \in Procs :
          /\ inv[p].pc = "done" /\ CreatesOnSnapshot(inv[p]) /\ Created(inv[p])
    /\ Len(BoundTwins(registry, SourceId)) = 2

\* C16: in the presence-check branch, when the resolved twin's display name
\* does not start with the original's display name, exactly one patchLabel
\* sets the twin's name label to <original display name> + " twin"; whatever
\* status that call answers, synchronization returns ("OK", 200) with the
\* twin, a labelsChanged event ends with ("OK", 200), and a temperature
\* event goes on to the model update.
RenameCase(r) ==
    /\ PresenceBranch(r)
    /\ r.pc \in {"update", "done", "crashed"}
    /\ r.twin # NoneVal /\ r.original_device # NoneVal
    /\ ~IsPrefixOf(DisplayName(r.original_device[1]), DisplayName(r.twin[1]))

C16_BestEffortRename ==
    \A p \in Procs :
        LET r == inv[p]
            patches == CallsOf(r, "patchLabel")
        IN  RenameCase(r) =>
                /\ r.pc # "crashed"
                /\ Len(patches) = 1
                /\ patches[1].dev = DeviceId(r.twin[1])
                /\ patches[1].arg =
                       [key |-> "name",
                        value |-> DisplayName(r.original_device[1])
                                      \o <<" ", "t", "w", "i", "n">>]
                /\ r.sync = Result(<<"OK">>, 200)
                /\ r.sync_twin = r.twin
                /\ LabelsChanged(r) => r.pc = "done" /\ r.result = Result(<<"OK">>, 200)
                /\ Temperature(r) =>
                       \/ r.pc = "update"
                       \/ /\ r.pc = "done"
                          /\ CoefficientOf(r) \in NumericCoefficients =>
                                 Len(CallsOf(r, "publishReading")) = 1

\* the rename was refused, and the reading was published all the same
C16_Witness ==
    \E p \in Procs :
        LET r == inv[p]
        IN  /\ RenameCase(r) /\ Temperature(r) /\ r.pc = "done"
            /\ \E i \in 1..Len(r.calls) :
                  r.calls[i].op = "patchLabel" /\ r.calls[i].status = 500
            /\ \E i \in 1..Len(r.calls) :
                  r.calls[i].op = "publishReading" /\ r.calls[i].status = 200

\* C17: a labelsChanged event whose modified delta holds the emulation label
\* and whose added delta does not returns ("-- Modified emulation label.",
\* 200) right after the device list: no deleteDevice, createDevice,
\* patchLabel or publishReading, whatever twins the roster holds.
ModifiedCase(r) == Listed(r) /\ InModified(r) /\ ~InAdded(r)

C17_ModifiedNoOp ==
    \A p \in Procs :
        LET r == inv[p]
        IN  ModifiedCase(r) =>
                /\ r.pc \in {"sync", "done"}
                /\ Len(r.calls) = 1 /\ r.calls[1].op = "listDevices"
                /\ r.pc = "done" =>
                       /\ r.result = Result(<<"-- Modified emulation label.">>, 200)
                       /\ r.sync_twin = NoneVal

\* returned on a roster that holds two twins of the device, with the label
\* reported as removed by the same event
C17_Witness ==
    \E p \in Procs :
        LET r == inv[p]
        IN  /\ ModifiedCase(r) /\ r.pc = "done"
            /\ \E i \in 1..Len(r.event[1].data.removed) :
                  r.event[1].data.removed[i] = "inertia-model"
            /\ Len(BoundTwins(r.device_list, r.device_id)) = 2

\* C18: for a temperature event, or a labelsChanged event whose deltas do
\* not mention the emulation label, with the label absent from the current
\* label set, the invocation issues one deleteDevice per bound twin of the
\* roster, no createDevice, patchLabel or publishReading, and returns
\* status 200 with no twin reference, also when the original is not listed.
DeactivationCase(r) ==
    /\ Finished(r)
    /\ ~LabelPresent(r)
    /\ \/ Temperature(r)
       \/ LabelsChanged(r) /\ ~InAdded(r) /\ ~InModified(r) /\ ~InRemoved(r)

C18_Deactivation ==
    \A p \in Procs :
        LET r == inv[p]
        IN  DeactivationCase(r) =>
                /\ r.pc = "done"
                /\ DeletesAre(r, BoundTwins(r.device_list, r.device_id))
                /\ NoCalls(r, {"createDevice", "patchLabel", "publishReading"})
                /\ r.result.code = 200
                /\ r.sync_twin = NoneVal

\* C19: within one invocation the calls come in a fixed order: the device
\* list request first and once, then the deleteDevice calls, then at most
\* one createDevice, at most one patchLabel, at most one publishReading.  No
\* call is sent twice, and publishReading is sent only for a temperature
\* event whose synchronization returned ("OK", 200) with a twin.
CallRank(op) ==
    CASE op = "listDevices" -> 1
      [] op = "deleteDevice" -> 2
      [] op = "createDevice" -> 3
      [] op = "patchLabel" -> 4
      [] op = "publishReading" -> 5

Synchronized(r) ==
    /\ Temperature(r)
    /\ r.sync = Result(<<"OK">>, 200)
    /\ r.sync_twin # NoneVal

C19_CallOrder ==
    \A p \in Procs :
        LET r == inv[p]
            calls == r.calls
        IN  /\ Listed(r) /\ ~IgnoredEvent(r) =>
                   Len(calls) >= 1 /\ calls[1].op = "listDevices"
            /\ \A i, j \in 1..Len(calls) :
                   i < j =>
                       /\ CallRank(calls[i].op) <= CallRank(calls[j].op)
                       /\ calls[i].op = calls[j].op =>
                              /\ calls[i].op = "deleteDevice"
                              /\ calls[i].dev # calls[j].dev
            /\ r.pc = "update" => Synchronized(r)
            /\ CallsOf(r, "publishReading") # <<>> => Synchronized(r)

\* an invocation that deleted nothing, renamed its twin and published
C19_Witness ==
    \E p \in Procs :
        LET r == inv[p]
        IN  /\ r.pc = "done"
            /\ [i \in 1..Len(r.calls) |-> r.calls[i].op]
                   = <<"listDevices", "patchLabel", "publishReading">>

\* C20: the cleanup that runs before a twin is created deletes nothing.  It
\* is entered only when find_twin returned none on the same roster, both
\* tests ask for a twin-prefixed id bound to the source id, so the cleanup
\* finds no device, and an invocation that issues a createDevice call
\* issues no deleteDevice call.
InSpawnPath(r) ==
    \/ r.clean_then = "spawn"
    \/ CallsOf(r, "createDevice") # <<>>

C20_CleanBeforeSpawn ==
    \A p \in Procs :
        LET r == inv[p]
        IN  InSpawnPath(r) =>
                /\ find_twin(r.device_id, r.device_list)
                       = [raised |-> FALSE, ret |-> NoneVal]
                /\ \A i \in 1..Len(r.device_list) :
                       find_twin_match(r.device_list[i], r.device_id)
                           <=> clean_twins_match(r.device_list[i], r.device_id)
                /\ NoCalls(r, {"deleteDevice"})

\* a twin was created on a roster that holds an emulated device bound to
\* another sensor and a sensor bound to the source
C20_Witness ==
    \E p \in Procs :
        LET r == inv[p]
        IN  /\ r.pc = "done" /\ Created(r)
            /\ \E i \in 1..Len(r.device_list) :
                  IsBoundTwin(r.device_list[i], <<"b">>)
            /\ \E i \in 1..Len(r.device_list) :
                  /\ ~IsTwinPrefixed(r.device_list[i])
                  /\ "original_device_id" \in DOMAIN r.device_list[i].labels

\* C21: when invocations run one at a time from a registry without twins,
\* every registry state holds at most one twin bound to each original
\* device id, every emulated device is bound to a source device, and a twin
\* an invocation created is bound to the device its event came from.
SourceIds == { <<"a">>, <<"b">> }
EventDeviceId(r) == r.event[1].targetName[4]

C21_SequentialAtMostOne ==
    /\ \A id \in SourceIds : Len(BoundTwins(registry, id)) <= 1
    /\ \A i \in 1..Len(registry) :
          IsTwinPrefixed(registry[i]) =>
              \E id \in SourceIds : IsBoundTwin(registry[i], id)
    /\ \A p \in Procs :
          Created(inv[p]) =>
              /\ inv[p].twin # NoneVal
              /\ IsBoundTwin(inv[p].twin[1], EventDeviceId(inv[p]))

\* each source device has its one twin after three creations: a twin was
\* deleted and created again on the way
C21_Witness ==
    /\ \A id \in SourceIds : Len(BoundTwins(registry, id)) = 1
    /\ nextId = MaxTwins + 1 + MaxCreated
    /\ inv[1].pc = "done" /\ Created(inv[1])

====
